---------------------------- MODULE Spec2Model ----------------------------
(***************************************************************************)
(* Survey/refine importance-sampling integrator of ZuNIS                   *)
(* (zunis_lib/zunis/integration/flat_survey_integrator.py).                *)
(*                                                                         *)
(* Floats are modelled exactly as extended rationals <<n, d>>:             *)
(*   d > 0  : the rational n/d in lowest terms,                            *)
(*   <<1,0>>, <<-1,0>> : +inf, -inf,   <<0,0>> : NaN,                      *)
(* with the IEEE-754 rules for the non-finite values (rounding and signed  *)
(* zeros are not modelled).  Square roots are kept symbolically as surds   *)
(* [rad |-> q], the non-negative real whose square is q.                   *)
(* Optional Python arguments are <<>> (None) or <<v>> (the value v).       *)
(***************************************************************************)
EXTENDS Integers, Sequences, FiniteSets, TLC

(***************************************************************************)
(* Bounds of the model                                                     *)
(***************************************************************************)
MaxIter == 2      \* largest iteration count per phase
MaxPoints == 2    \* largest batch size
MaxRuns == 2      \* integrate() calls on one instance
MaxHist == 2      \* longest literal history handed to finalize_integration

(***************************************************************************)
(* Program constants                                                       *)
(***************************************************************************)
DefaultNIter == 10          \* __init__: n_iter=10
DefaultNPoints == 100000    \* __init__: n_points=100000
\* torch.exp(-t) is 0.0 in float32 once t exceeds 149 ln 2 (below the
\* smallest subnormal 2^-149); log-densities are counted in units of ln 2.
UnderflowLog2 == 150

None == <<>>
Some(v) == <<v>>
IsNone(o) == o = <<>>
Get(o) == o[1]

(***************************************************************************)
(* Float arithmetic                                                        *)
(***************************************************************************)
Abs(a) == IF a < 0 THEN -a ELSE a
Sign(a) == IF a < 0 THEN -1 ELSE IF a > 0 THEN 1 ELSE 0
Max(a, b) == IF a < b THEN b ELSE a

RECURSIVE GCD(_, _)
GCD(a, b) == IF b = 0 THEN a ELSE GCD(b, a % b)

Norm(n, d) ==
    IF d = 0 THEN <<Sign(n), 0>>
    ELSE LET s == IF d < 0 THEN -1 ELSE 1
             g == GCD(Abs(n), Abs(d))
         IN  <<(s * n) \div g, (s * d) \div g>>

R(n, d) == Norm(n, d)
FromInt(n) == <<n, 1>>
NaN == <<0, 0>>
IsNaN(a) == a = <<0, 0>>
IsFinite(a) == a[2] # 0

RNeg(a) == <<-a[1], a[2]>>
RAdd(a, b) ==
    IF IsNaN(a) \/ IsNaN(b) THEN NaN
    ELSE IF a[2] = 0 /\ b[2] = 0 THEN (IF a = b THEN a ELSE NaN)
    ELSE IF a[2] = 0 THEN a
    ELSE IF b[2] = 0 THEN b
    ELSE Norm(a[1] * b[2] + b[1] * a[2], a[2] * b[2])
RSub(a, b) == RAdd(a, RNeg(b))
RMul(a, b) == Norm(a[1] * b[1], a[2] * b[2])
RInv(a) == IF a[1] < 0 THEN <<-a[2], -a[1]>> ELSE <<a[2], a[1]>>
RDiv(a, b) == RMul(a, RInv(b))

\* x ** 0.5 and np.sqrt(x) of a non-negative (or non-finite) float
Sqrt(q) == [rad |-> q]
\* s * n for a surd s and an integer n
SurdTimesInt(s, n) == [rad |-> RMul(s.rad, FromInt(n * n))]
\* s ** 2
SurdSquare(s) == s.rad


(***************************************************************************)
(* State                                                                   *)
(***************************************************************************)
VARIABLES
    \* fields of the integrator object
    f,                    \* the integrand
    model_trainer,        \* the trainer: number of training updates it has made
    posterior,            \* the sampler used during the survey phase
    n_iter_survey, n_iter_refine,
    n_points_survey, n_points_refine,
    use_survey,
    integration_history,  \* sequence of records, oldest first
    d,                    \* None, or Some(dimension) once FlatSurveySamplingIntegrator set it
    \* the caller and the running integrate() call
    args,                 \* the arguments __init__ was called with
    pc,                   \* position of the caller / of integrate()
    it,                   \* iterations of the current phase done so far
    sample,               \* None or Some((x, px, fx)) of the current iteration
    result,               \* None or Some(what the last call returned)
    call_use_survey,      \* use_survey argument of the last finalize_integration
    call_log,             \* arguments of the process_*_step calls of this run
    runs                  \* integrate() calls started on this instance

fields == <<f, model_trainer, posterior, n_iter_survey, n_iter_refine,
            n_points_survey, n_points_refine, use_survey, integration_history, d>>
config == <<n_iter_survey, n_iter_refine, n_points_survey, n_points_refine,
            use_survey>>
control == <<args, pc, it, sample, result, call_use_survey, call_log, runs>>
vars == <<fields, control>>

\* constant integrands: f(x) = 1 and f(x) = 0
Integrands == {"unit", "zero"}
Posteriors == {"generic", "uniform"}
Phases == {"survey", "refine"}

\* pd.DataFrame with the four typed, empty columns
empty_history == <<>>

(***************************************************************************)
(* __init__                                                                *)
(***************************************************************************)
\* mutant: "opt or dflt", which also replaces an explicit 0
OrDefaultFalsy(opt, dflt) == IF ~IsNone(opt) /\ Get(opt) # 0 THEN Get(opt) ELSE dflt

\* n_iter_survey if n_iter_survey is not None else n_iter, and alike
OrDefault(opt, dflt) == IF ~IsNone(opt) THEN Get(opt) ELSE dflt

\* the fields of the object after __init__(**a)
IntegratorInit(a) ==
    [f |-> a.f,
     model_trainer |-> a.trainer,
     posterior |-> a.posterior,
     n_iter_survey |-> OrDefault(a.n_iter_survey, a.n_iter),
     n_iter_refine |-> OrDefault(a.n_iter_refine, a.n_iter),
     n_points_survey |-> OrDefault(a.n_points_survey, a.n_points),
     n_points_refine |-> OrDefault(a.n_points_refine, a.n_points),
     use_survey |-> a.use_survey,
     integration_history |-> empty_history,
     d |-> None]

\* the object's fields are those of the record o
FieldsAre(o) ==
    /\ f = o.f
    /\ model_trainer = o.model_trainer
    /\ posterior = o.posterior
    /\ n_iter_survey = o.n_iter_survey
    /\ n_iter_refine = o.n_iter_refine
    /\ n_points_survey = o.n_points_survey
    /\ n_points_refine = o.n_points_refine
    /\ use_survey = o.use_survey
    /\ integration_history = o.integration_history
    /\ d = o.d

Opt(S) == {None} \cup {Some(v) : v \in S}

\* every way of calling __init__ within the bounds
CtorArgs ==
    [f : Integrands, trainer : {0}, posterior : Posteriors,
     n_iter : 0..MaxIter,
     n_iter_survey : Opt(0..MaxIter), n_iter_refine : Opt(0..MaxIter),
     n_points : 0..MaxPoints,
     n_points_survey : Opt(0..MaxPoints), n_points_refine : Opt(0..MaxPoints),
     use_survey : BOOLEAN]

\* the object before __init__ has run: no field is set yet
Unset ==
    [f |-> "unset", model_trainer |-> 0, posterior |-> "unset",
     n_iter_survey |-> 0, n_iter_refine |-> 0,
     n_points_survey |-> 0, n_points_refine |-> 0,
     use_survey |-> FALSE, integration_history |-> empty_history, d |-> None]

CtorInit ==
    /\ args \in CtorArgs
    /\ FieldsAre(Unset)
    /\ pc = "new"
    /\ it = 0 /\ sample = None /\ result = None /\ call_use_survey = None
    /\ call_log = <<>> /\ runs = 0

Construct ==
    /\ pc = "new"
    /\ pc' = "IDLE"
    /\ LET o == IntegratorInit(args) IN
        /\ f' = o.f
        /\ model_trainer' = o.model_trainer
        /\ posterior' = o.posterior
        /\ n_iter_survey' = o.n_iter_survey
        /\ n_iter_refine' = o.n_iter_refine
        /\ n_points_survey' = o.n_points_survey
        /\ n_points_refine' = o.n_points_refine
        /\ use_survey' = o.use_survey
        /\ integration_history' = o.integration_history
        /\ d' = o.d
    /\ UNCHANGED <<args, it, sample, result, call_use_survey, call_log, runs>>

CtorNext == Construct
SpecCtor == CtorInit /\ [][CtorNext]_vars

(***************************************************************************)
(* The object as a record, and its update                                  *)
(***************************************************************************)
Self ==
    [f |-> f, model_trainer |-> model_trainer, posterior |-> posterior,
     n_iter_survey |-> n_iter_survey, n_iter_refine |-> n_iter_refine,
     n_points_survey |-> n_points_survey, n_points_refine |-> n_points_refine,
     use_survey |-> use_survey, integration_history |-> integration_history,
     d |-> d]

Becomes(o) ==
    /\ f' = o.f
    /\ model_trainer' = o.model_trainer
    /\ posterior' = o.posterior
    /\ n_iter_survey' = o.n_iter_survey
    /\ n_iter_refine' = o.n_iter_refine
    /\ n_points_survey' = o.n_points_survey
    /\ n_points_refine' = o.n_points_refine
    /\ use_survey' = o.use_survey
    /\ integration_history' = o.integration_history
    /\ d' = o.d

(***************************************************************************)
(* Collaborators: integrand, posterior, trainer                            *)
(***************************************************************************)
Points == {0}
\* densities a posterior can report for a point it produced
Densities(post) == IF post = "uniform" THEN {R(1, 1)} ELSE {R(1, 1), R(0, 1)}
\* last column of sample_forward, in units of ln 2
LogDensities == {0, UnderflowLog2}

\* f(x) for one point
EvalF(ff, x) == IF ff = "unit" THEN R(1, 1) ELSE R(0, 1)

RECURSIVE Pow2(_)
Pow2(k) == IF k = 0 THEN 1 ELSE 2 * Pow2(k - 1)

\* torch.exp(-t) for t = k ln 2
ExpNeg(k) ==
    IF k >= UnderflowLog2 THEN R(0, 1)
    ELSE IF k >= 0 THEN R(1, Pow2(k)) ELSE R(Pow2(-k), 1)

\* BasicStatefulTrainer.generate_target_batch_from_posterior(n, f, posterior):
\* the batches (x, p(x), f(x)) it can return
generate_target_batch_from_posterior(n, ff, post) ==
    { [x |-> xs, px |-> ps, fx |-> [i \in 1..n |-> EvalF(ff, xs[i])]] :
        xs \in [1..n -> Points], ps \in [1..n -> Densities(post)] }

\* model_trainer.sample_forward(n): the n x (d+1) batches it can return, each
\* row a point and its log-density
sample_forward(n) == [1..n -> [x : Points, lj : LogDensities]]

\* model_trainer.train_on_batch: one more training update; the record it
\* returns names the update
train_on_batch(self) == [self EXCEPT !.model_trainer = @ + 1]

(***************************************************************************)
(* Hooks of PosteriorSurveySamplingIntegrator                              *)
(***************************************************************************)
\* mutant: initialize() keeps the old history
initialize_keeps_history(self) == self
\* mutant: initialize() also replaces the trainer by a fresh one
initialize_resets_trainer(self) ==
    [self EXCEPT !.integration_history = empty_history, !.model_trainer = 0]

initialize(self) == [self EXCEPT !.integration_history = empty_history]
initialize_survey(self) == self
initialize_refine(self) == self
finalize_survey(self) == self
finalize_refine(self) == self

\* the samples sample_survey(n_points=np, f=fa) can return
sample_survey(self, np, fa) ==
    LET n == OrDefault(np, self.n_points_survey)
        ff == OrDefault(fa, self.f)
    IN  generate_target_batch_from_posterior(n, ff, self.posterior)

\* the samples sample_refine(n_points=np, f=fa) can return
sample_refine(self, np, fa) ==
    LET n == OrDefault(np, self.n_points_refine)
        ff == OrDefault(fa, self.f)
    IN  { [x |-> [i \in 1..n |-> xj[i].x],
           px |-> [i \in 1..n |-> ExpNeg(xj[i].lj)],
           fx |-> [i \in 1..n |-> EvalF(ff, xj[i].x)]] :
            xj \in sample_forward(n) }

\* mutant: sample_refine also fits the trainer on the batch it drew
sample_refine_trains(self) == [self EXCEPT !.model_trainer = @ + 1]

\* sample_survey and sample_refine return; the object after the call
sample_survey_self(self) == self
sample_refine_self(self) == self

\* integral_var / n_points on Python floats raises ZeroDivisionError
process_step_raises(smp) == Len(smp.x) = 0

\* mutant: the survey step records the refine phase
process_survey_step_as_refine(self, smp, integral, integral_var, training_record) ==
    LET n_points == Len(smp.x) IN
    [self EXCEPT !.integration_history =
        Append(@, [integral |-> integral,
                   error |-> Sqrt(RDiv(integral_var, FromInt(n_points))),
                   n_points |-> n_points,
                   phase |-> "refine",
                   training_record |-> Some(training_record)])]

process_survey_step(self, smp, integral, integral_var, training_record) ==
    LET n_points == Len(smp.x) IN
    [self EXCEPT !.integration_history =
        Append(@, [integral |-> integral,
                   error |-> Sqrt(RDiv(integral_var, FromInt(n_points))),
                   n_points |-> n_points,
                   phase |-> "survey",
                   training_record |-> Some(training_record)])]

\* mutant: the refine step writes its record over the latest one
process_refine_step_replaces_last(self, smp, integral, integral_var) ==
    LET n_points == Len(smp.x)
        h == self.integration_history
    IN
    [self EXCEPT !.integration_history =
        SubSeq(h, 1, Len(h) - 1) \o
        <<[integral |-> integral,
           error |-> Sqrt(RDiv(integral_var, FromInt(n_points))),
           n_points |-> n_points,
           phase |-> "refine",
           training_record |-> None]>>]

\* mutant: the refine step puts its record in front
process_refine_step_prepends(self, smp, integral, integral_var) ==
    LET n_points == Len(smp.x) IN
    [self EXCEPT !.integration_history =
        <<[integral |-> integral,
           error |-> Sqrt(RDiv(integral_var, FromInt(n_points))),
           n_points |-> n_points,
           phase |-> "refine",
           training_record |-> None]>> \o @]

process_refine_step(self, smp, integral, integral_var) ==
    LET n_points == Len(smp.x) IN
    [self EXCEPT !.integration_history =
        Append(@, [integral |-> integral,
                   error |-> Sqrt(RDiv(integral_var, FromInt(n_points))),
                   n_points |-> n_points,
                   phase |-> "refine",
                   training_record |-> None])]

(***************************************************************************)
(* finalize_integration                                                    *)
(***************************************************************************)
RECURSIVE SelectRows(_, _)
\* df.loc[df["phase"] == ph]
SelectRows(df, ph) ==
    IF df = <<>> THEN <<>>
    ELSE IF Head(df).phase = ph THEN <<Head(df)>> \o SelectRows(Tail(df), ph)
    ELSE SelectRows(Tail(df), ph)

\* data["integral"] * data["n_points"]
IntegralTimesN(data) ==
    [i \in 1..Len(data) |-> RMul(data[i].integral, FromInt(data[i].n_points))]
\* (data["error"] * data["n_points"]) ** 2
ErrorTimesNSquared(data) ==
    [i \in 1..Len(data) |-> SurdSquare(SurdTimesInt(data[i].error, data[i].n_points))]

RECURSIVE SeriesSum(_)
\* Series.sum() of a float column: NaN entries are skipped (skipna=True)
SeriesSum(col) ==
    IF col = <<>> THEN FromInt(0)
    ELSE IF IsNaN(Head(col)) THEN SeriesSum(Tail(col))
    ELSE RAdd(Head(col), SeriesSum(Tail(col)))

RECURSIVE NPointsSum(_)
\* data["n_points"].sum()
NPointsSum(data) ==
    IF data = <<>> THEN 0 ELSE Head(data).n_points + NPointsSum(Tail(data))

\* mutant: the survey rows are never filtered out
SelectedDataAll(self, us) == self.integration_history

\* the rows finalize_integration pools
SelectedData(self, us) ==
    LET flag == OrDefault(us, self.use_survey) IN
    IF flag THEN self.integration_history
    ELSE SelectRows(self.integration_history, "refine")

\* what finalize_integration(use_survey=us) returns
finalize_integration(self, us) ==
    LET data == SelectedData(self, us)
        total == NPointsSum(data)
        res == RDiv(SeriesSum(IntegralTimesN(data)), FromInt(total))
        err == Sqrt(RDiv(SeriesSum(ErrorTimesNSquared(data)), FromInt(total * total)))
    IN  [value |-> res, error |-> err, history |-> self.integration_history]

\* mutant: finalize_integration stores the rows it pooled as the history
finalize_integration_stores_selection(self, us) ==
    [self EXCEPT !.integration_history = SelectedData(self, us)]

\* finalize_integration(use_survey=us) returns; the object after the call
finalize_integration_self(self, us) == self

(***************************************************************************)
(* Per-iteration estimator of the driver                                   *)
(***************************************************************************)
\* fx / px, row by row
Ratios(smp) == [i \in 1..Len(smp.x) |-> RDiv(smp.fx[i], smp.px[i])]

RECURSIVE PlainSum(_)
PlainSum(col) == IF col = <<>> THEN FromInt(0) ELSE RAdd(Head(col), PlainSum(Tail(col)))

\* mean(f(x) / p(x))
Mean(w) == RDiv(PlainSum(w), FromInt(Len(w)))
\* unbiased sample variance of f(x) / p(x)
Var(w) ==
    LET m == Mean(w)
        sq == [i \in 1..Len(w) |-> RMul(RSub(w[i], m), RSub(w[i], m))]
    IN  RDiv(PlainSum(sq), FromInt(Max(0, Len(w) - 1)))

(***************************************************************************)
(* integrate(): initialize, survey loop, refine loop, finalize             *)
(***************************************************************************)
\* explicit per-phase settings; the shared defaults are the signature's
RunArgs ==
    [f : Integrands, trainer : {0}, posterior : Posteriors,
     n_iter : {DefaultNIter},
     n_iter_survey : {Some(v) : v \in 0..MaxIter},
     n_iter_refine : {Some(v) : v \in 0..MaxIter},
     n_points : {DefaultNPoints},
     n_points_survey : {Some(v) : v \in 0..MaxPoints},
     n_points_refine : {Some(v) : v \in 0..MaxPoints},
     use_survey : BOOLEAN]

Init ==
    /\ args \in RunArgs
    /\ FieldsAre(IntegratorInit(args))
    /\ pc = "IDLE"
    /\ it = 0 /\ sample = None /\ result = None /\ call_use_survey = None
    /\ call_log = <<>> /\ runs = 0

\* the caller calls integrate()
Integrate ==
    /\ pc \in {"IDLE", "DONE", "ERROR"}
    /\ runs < MaxRuns
    /\ runs' = runs + 1
    /\ pc' = "INIT"
    /\ it' = 0 /\ sample' = None /\ result' = None /\ call_log' = <<>>
    /\ UNCHANGED <<fields, args, call_use_survey>>

\* initialize(); initialize_survey()
Initialize ==
    /\ pc = "INIT"
    /\ Becomes(initialize_survey(initialize(Self)))
    /\ pc' = "SURVEYING"
    /\ it' = 0
    /\ UNCHANGED <<args, sample, result, call_use_survey, call_log, runs>>

SampleSurvey ==
    /\ pc = "SURVEYING" /\ it < n_iter_survey /\ sample = None
    /\ \E smp \in sample_survey(Self, None, None) : sample' = Some(smp)
    /\ Becomes(sample_survey_self(Self))
    /\ UNCHANGED <<args, pc, it, result, call_use_survey, call_log, runs>>

\* estimate, train on the batch, process_survey_step
SurveyStep ==
    /\ pc = "SURVEYING" /\ sample # None
    /\ LET smp == Get(sample)
           integral == Mean(Ratios(smp))
           integral_var == Var(Ratios(smp))
           trained == train_on_batch(Self)
       IN  /\ call_log' = Append(call_log, [phase |-> "survey", integral |-> integral,
                                            integral_var |-> integral_var,
                                            n_points |-> Len(smp.x)])
           /\ IF process_step_raises(smp)
              THEN /\ Becomes(trained)
                   /\ pc' = "ERROR"
                   /\ it' = it
              ELSE /\ Becomes(process_survey_step(trained, smp, integral, integral_var,
                                                  trained.model_trainer))
                   /\ pc' = pc
                   /\ it' = it + 1
    /\ sample' = None
    /\ UNCHANGED <<args, result, call_use_survey, runs>>

\* finalize_survey(); initialize_refine()
FinalizeSurvey ==
    /\ pc = "SURVEYING" /\ it >= n_iter_survey /\ sample = None
    /\ Becomes(initialize_refine(finalize_survey(Self)))
    /\ pc' = "REFINING"
    /\ it' = 0
    /\ UNCHANGED <<args, sample, result, call_use_survey, call_log, runs>>

SampleRefine ==
    /\ pc = "REFINING" /\ it < n_iter_refine /\ sample = None
    /\ \E smp \in sample_refine(Self, None, None) : sample' = Some(smp)
    /\ Becomes(sample_refine_self(Self))
    /\ UNCHANGED <<args, pc, it, result, call_use_survey, call_log, runs>>

\* estimate, process_refine_step
RefineStep ==
    /\ pc = "REFINING" /\ sample # None
    /\ LET smp == Get(sample)
           integral == Mean(Ratios(smp))
           integral_var == Var(Ratios(smp))
       IN  /\ call_log' = Append(call_log, [phase |-> "refine", integral |-> integral,
                                            integral_var |-> integral_var,
                                            n_points |-> Len(smp.x)])
           /\ IF process_step_raises(smp)
              THEN /\ UNCHANGED fields
                   /\ pc' = "ERROR"
                   /\ it' = it
              ELSE /\ Becomes(process_refine_step(Self, smp, integral, integral_var))
                   /\ pc' = pc
                   /\ it' = it + 1
    /\ sample' = None
    /\ UNCHANGED <<args, result, call_use_survey, runs>>

\* finalize_refine(); return finalize_integration()
FinalizeIntegration ==
    /\ pc = "REFINING" /\ it >= n_iter_refine /\ sample = None
    /\ LET self == finalize_refine(Self) IN
        /\ Becomes(finalize_integration_self(self, None))
        /\ result' = Some(finalize_integration(self, None))
    /\ call_use_survey' = None
    /\ pc' = "DONE"
    /\ UNCHANGED <<args, it, sample, call_log, runs>>

Next ==
    \/ Integrate
    \/ Initialize
    \/ SampleSurvey
    \/ SurveyStep
    \/ FinalizeSurvey
    \/ SampleRefine
    \/ RefineStep
    \/ FinalizeIntegration

Spec == Init /\ [][Next]_vars

(***************************************************************************)
(* finalize_integration called on a literal history                        *)
(***************************************************************************)
PoolRecords ==
    [integral : {R(1, 1), R(2, 1), NaN},
     error : {Sqrt(R(1, 100)), Sqrt(NaN)},
     n_points : {100, 300},
     phase : Phases,
     training_record : {None}]

PoolHistories == UNION {[1..k -> PoolRecords] : k \in 0..MaxHist}

\* the integrator the literal history is put into
PoolArgs ==
    [f : Integrands, trainer : {0}, posterior : {"generic"},
     n_iter : {DefaultNIter},
     n_iter_survey : {None}, n_iter_refine : {None},
     n_points : {DefaultNPoints},
     n_points_survey : {None}, n_points_refine : {None},
     use_survey : BOOLEAN]

PoolInit ==
    /\ args \in PoolArgs
    /\ integration_history \in PoolHistories
    /\ FieldsAre([IntegratorInit(args) EXCEPT !.integration_history = integration_history])
    /\ pc = "POOL"
    /\ it = 0 /\ sample = None /\ result = None /\ call_use_survey = None
    /\ call_log = <<>> /\ runs = 0

\* the caller calls finalize_integration(use_survey=us)
PoolFinalize ==
    /\ pc = "POOL"
    /\ \E us \in Opt(BOOLEAN) :
        /\ result' = Some(finalize_integration(Self, us))
        /\ Becomes(finalize_integration_self(Self, us))
        /\ call_use_survey' = us
    /\ pc' = "RETURNED"
    /\ UNCHANGED <<args, it, sample, call_log, runs>>

\* the caller repeats the call, with the same argument
PoolFinalizeAgain ==
    /\ pc = "RETURNED"
    /\ result' = Some(finalize_integration(Self, call_use_survey))
    /\ Becomes(finalize_integration_self(Self, call_use_survey))
    /\ pc' = "RETURNED_AGAIN"
    /\ UNCHANGED <<args, it, sample, call_use_survey, call_log, runs>>

PoolNext ==
    \/ PoolFinalize
    \/ PoolFinalizeAgain
SpecPool == PoolInit /\ [][PoolNext]_vars

(***************************************************************************)
(* FlatSurveySamplingIntegrator                                            *)
(***************************************************************************)
\* dimensions of the hypercube
FlatDims == {1, 2}

\* UniformSampler(d=dd, device=device): the uniform posterior over the
\* dd-dimensional hypercube
UniformSampler(dd) == "uniform"

\* FlatSurveySamplingIntegrator(f, trainer, d, ...): no posterior argument
FlatArgs ==
    [f : Integrands, trainer : {0}, d : FlatDims,
     n_iter : {DefaultNIter},
     n_iter_survey : {Some(v) : v \in 0..MaxIter},
     n_iter_refine : {Some(v) : v \in 0..MaxIter},
     n_points : {DefaultNPoints},
     n_points_survey : {Some(v) : v \in 0..MaxPoints},
     n_points_refine : {Some(v) : v \in 0..MaxPoints},
     use_survey : BOOLEAN]

\* the arguments FlatSurveySamplingIntegrator.__init__(**a) hands to
\* PosteriorSurveySamplingIntegrator.__init__, given the posterior it made
SuperArgs(a, post) ==
    [f |-> a.f, trainer |-> a.trainer, posterior |-> post,
     n_iter |-> a.n_iter,
     n_iter_survey |-> a.n_iter_survey, n_iter_refine |-> a.n_iter_refine,
     n_points |-> a.n_points,
     n_points_survey |-> a.n_points_survey,
     n_points_refine |-> a.n_points_refine,
     use_survey |-> a.use_survey]

\* mutant: the survey posterior is a trainable one
FlatIntegratorInitTrainable(a) ==
    [IntegratorInit(SuperArgs(a, "generic")) EXCEPT !.d = Some(a.d)]

\* the fields of the object after FlatSurveySamplingIntegrator.__init__(**a)
FlatIntegratorInit(a) ==
    [IntegratorInit(SuperArgs(a, UniformSampler(a.d))) EXCEPT !.d = Some(a.d)]

FlatInit ==
    /\ args \in FlatArgs
    /\ FieldsAre(FlatIntegratorInit(args))
    /\ pc = "IDLE"
    /\ it = 0 /\ sample = None /\ result = None /\ call_use_survey = None
    /\ call_log = <<>> /\ runs = 0

\* integrate() on a FlatSurveySamplingIntegrator: no hook is overridden
SpecFlat == FlatInit /\ [][Next]_vars

(***************************************************************************)
(* Properties                                                              *)
(***************************************************************************)
\* the flag the last finalize_integration call worked with
EffectiveUseSurvey == IF IsNone(call_use_survey) THEN use_survey ELSE Get(call_use_survey)
IsRefine(r) == r.phase = "refine"
IsSurvey(r) == r.phase = "survey"
\* the records the closed forms range over
Selected(h, flag) == IF flag THEN h ELSE SelectSeq(h, IsRefine)

RECURSIVE SigmaN(_)
SigmaN(h) == IF h = <<>> THEN 0 ELSE Head(h).n_points + SigmaN(Tail(h))
RECURSIVE SigmaIntegralN(_)
SigmaIntegralN(h) ==
    IF h = <<>> THEN FromInt(0)
    ELSE RAdd(RMul(Head(h).integral, FromInt(Head(h).n_points)), SigmaIntegralN(Tail(h)))
RECURSIVE SigmaErrorNSquared(_)
SigmaErrorNSquared(h) ==
    IF h = <<>> THEN FromInt(0)
    ELSE RAdd(RMul(Head(h).error.rad, FromInt(Head(h).n_points * Head(h).n_points)),
              SigmaErrorNSquared(Tail(h)))
\* sqrt(s) / n
SqrtOverInt(q, n) == [rad |-> RDiv(q, FromInt(n * n))]
HasNaN(h) == \E i \in 1..Len(h) : IsNaN(h[i].integral) \/ IsNaN(h[i].error.rad)

\* C1: for any history of records with n_i > 0, finalize_integration returns
\* value = sum(integral_i * n_i) / sum(n_i) over the selected records.
C1_ValueIsWeightedMean ==
    pc = "RETURNED" =>
        LET data == Selected(integration_history, EffectiveUseSurvey) IN
        Get(result).value = RDiv(SigmaIntegralN(data), FromInt(SigmaN(data)))

\* C1 on the histories without a NaN entry: the weighted mean is returned, and
\* (1.0, 0.1, 100), (2.0, 0.1, 300) pool to 1.75.
C1_ValueIsWeightedMeanOfNumbers ==
    pc = "RETURNED" =>
        LET data == Selected(integration_history, EffectiveUseSurvey) IN
        /\ (~HasNaN(data) /\ data # <<>>) =>
              /\ Get(result).value = RDiv(SigmaIntegralN(data), FromInt(SigmaN(data)))
              /\ RMul(Get(result).value, FromInt(SigmaN(data))) = SigmaIntegralN(data)
        /\ ( /\ Len(data) = 2
             /\ data[1].integral = R(1, 1) /\ data[1].n_points = 100
             /\ data[2].integral = R(2, 1) /\ data[2].n_points = 300 )
           => Get(result).value = R(7, 4)

\* C2: for any history, finalize_integration returns
\* error = sqrt(sum((error_i * n_i)^2)) / sum(n_i) over the selected records,
\* i.e. error^2 * (sum n_i)^2 = sum((error_i * n_i)^2).
C2_ErrorIsPooledError ==
    pc = "RETURNED" =>
        LET data == Selected(integration_history, EffectiveUseSurvey) IN
        /\ Get(result).error = SqrtOverInt(SigmaErrorNSquared(data), SigmaN(data))
        /\ data # <<>> =>
              RMul(SurdSquare(Get(result).error), FromInt(SigmaN(data) * SigmaN(data)))
                  = SigmaErrorNSquared(data)

\* C2 on the histories without a NaN entry.
C2_ErrorIsPooledErrorOfNumbers ==
    pc = "RETURNED" =>
        LET data == Selected(integration_history, EffectiveUseSurvey) IN
        (~HasNaN(data) /\ data # <<>>) =>
            /\ Get(result).error = SqrtOverInt(SigmaErrorNSquared(data), SigmaN(data))
            /\ RMul(SurdSquare(Get(result).error), FromInt(SigmaN(data) * SigmaN(data)))
                  = SigmaErrorNSquared(data)

SameEstimate(a, b) == a.value = b.value /\ a.error = b.error
WithHistory(h) == [Self EXCEPT !.integration_history = h]

\* C3: with use_survey false the returned (value, error) does not depend on
\* the survey records: it is the (value, error) returned for the history with
\* every survey record taken out.  Two histories with the same refine records
\* in the same order therefore return the same (value, error), whatever their
\* survey records are.
C3_SurveyRecordsIgnored ==
    (pc = "RETURNED" /\ ~EffectiveUseSurvey) =>
        SameEstimate(Get(result),
                     finalize_integration(
                         WithHistory(SelectSeq(integration_history, IsRefine)),
                         call_use_survey))

\* a refine record pooled while a survey record with three times its points
\* is in the history
C3_Witness ==
    /\ pc = "RETURNED" /\ ~EffectiveUseSurvey
    /\ \E i, j \in 1..Len(integration_history) :
          /\ IsSurvey(integration_history[i]) /\ integration_history[i].n_points = 300
          /\ IsRefine(integration_history[j]) /\ integration_history[j].n_points = 100
    /\ IsFinite(Get(result).value)

Count(h, ph) == Len(SelectSeq(h, LAMBDA r : r.phase = ph))
Running == pc \in {"SURVEYING", "REFINING", "DONE"}
\* the k-th record is the one the k-th process_*_step call of this run made
FromThisRun(h) ==
    /\ Len(h) = Len(call_log)
    /\ \A k \in 1..Len(h) :
          /\ h[k].phase = call_log[k].phase
          /\ h[k].integral = call_log[k].integral
          /\ h[k].n_points = call_log[k].n_points

\* C4: every integrate() call starts from an empty history: once initialize()
\* has run the history holds only the records appended during this call, and
\* so does the history that the call returns.
C4_FreshHistoryEachRun ==
    /\ Running => FromThisRun(integration_history)
    /\ pc = "DONE" => FromThisRun(Get(result).history)

\* a second integrate() call has returned after a first one that had left
\* n_iter_survey >= 1 survey records (the trainer was trained in both)
C4_Witness ==
    /\ runs = 2 /\ pc = "DONE"
    /\ n_iter_survey >= 1
    /\ model_trainer = 2 * n_iter_survey
    /\ Len(Get(result).history) = n_iter_survey + n_iter_refine

\* C5: integrate() being called, initialize(), initialize_survey(),
\* finalize_survey(), initialize_refine(), finalize_refine() and
\* finalize_integration() leave model_trainer, posterior, f, n_iter_*,
\* n_points_* and use_survey unchanged; of the fields only
\* integration_history is reset at the start of a run.
C5_TrainerAndConfigPersist ==
    [][ ( \/ pc' = "INIT"
          \/ pc = "INIT"
          \/ (pc = "SURVEYING" /\ pc' = "REFINING")
          \/ (pc = "REFINING" /\ pc' = "DONE") )
        => UNCHANGED <<f, model_trainer, posterior, config>> ]_vars

\* the second run has been initialized with a trainer trained by the first
C5_Witness ==
    /\ runs = 2 /\ pc = "SURVEYING" /\ it = 0
    /\ model_trainer >= 1
    /\ integration_history = <<>>

\* C6: finalize_integration on a history without records raises
\* EmptyHistoryError: integrate() never returns a (value, error) pair that was
\* computed from an empty history.
C6_EmptyHistoryRaises ==
    ~(pc \in {"DONE", "RETURNED"} /\ result # None /\ Get(result).history = <<>>)

\* C7: a batch with a point of density <= 0 raises DegenerateDensityError and
\* leaves no record: no record with an inf or NaN integral is in the history.
C7_NoRecordFromDegenerateBatch ==
    \A k \in 1..Len(integration_history) : IsFinite(integration_history[k].integral)

\* C8: after construction each per-phase setting is its own argument when that
\* is not None, an explicit 0 included, and the shared value otherwise; the
\* value of one phase does not depend on the argument of the other.
C8_PerPhaseDefaults ==
    pc = "IDLE" =>
        /\ n_iter_survey =
              (IF args.n_iter_survey # None THEN args.n_iter_survey[1] ELSE args.n_iter)
        /\ n_iter_refine =
              (IF args.n_iter_refine # None THEN args.n_iter_refine[1] ELSE args.n_iter)
        /\ n_points_survey =
              (IF args.n_points_survey # None THEN args.n_points_survey[1] ELSE args.n_points)
        /\ n_points_refine =
              (IF args.n_points_refine # None THEN args.n_points_refine[1] ELSE args.n_points)
        /\ \A v \in Opt(0..MaxIter) :
              /\ IntegratorInit([args EXCEPT !.n_iter_survey = v]).n_iter_refine = n_iter_refine
              /\ IntegratorInit([args EXCEPT !.n_iter_refine = v]).n_iter_survey = n_iter_survey
        /\ \A v \in Opt(0..MaxPoints) :
              /\ IntegratorInit([args EXCEPT !.n_points_survey = v]).n_points_refine
                    = n_points_refine
              /\ IntegratorInit([args EXCEPT !.n_points_refine = v]).n_points_survey
                    = n_points_survey

\* an explicit 0 next to a shared value that is not 0, the other phase defaulted
C8_Witness ==
    /\ pc = "IDLE"
    /\ args.n_iter_survey = Some(0) /\ args.n_iter > 0 /\ args.n_iter_refine = None
    /\ n_iter_survey = 0 /\ n_iter_refine = args.n_iter
    /\ args.n_points_refine = Some(0) /\ args.n_points > 0 /\ args.n_points_survey = None
    /\ n_points_refine = 0 /\ n_points_survey = args.n_points

PhaseRank(p) ==
    CASE p = "IDLE" -> 0
      [] p = "INIT" -> 1
      [] p = "SURVEYING" -> 2
      [] p = "REFINING" -> 3
      [] OTHER -> 4
SurveyFirst(h) ==
    \A i, j \in 1..Len(h) : (i < j) => ~(h[i].phase = "refine" /\ h[j].phase = "survey")

\* C9: within one integrate() call the phases run INIT, SURVEYING, REFINING,
\* DONE and never backwards; every survey step precedes every refine step, so
\* in the history every survey record precedes every refine record; and
\* finalize_integration runs only after the last refine step.
C9_PhaseOrder ==
    /\ [](SurveyFirst(call_log) /\ (Running => SurveyFirst(integration_history)))
    /\ [][pc' # "INIT" => PhaseRank(pc') >= PhaseRank(pc)]_vars
    /\ [][pc' = "INIT" => pc \in {"IDLE", "DONE", "ERROR"}]_vars
    /\ [][pc' = "DONE" =>
            /\ pc = "REFINING" /\ it >= n_iter_refine /\ sample = None
            /\ Count(call_log, "refine") = n_iter_refine]_vars

\* a run with both phases has been finalized
C9_Witness ==
    /\ pc = "DONE"
    /\ Count(integration_history, "survey") >= 1
    /\ Count(integration_history, "refine") >= 1

\* C10: each iteration executes exactly once: while a run is under way the
\* history holds one record per finished iteration, and after integrate() has
\* returned it holds exactly n_iter_survey survey records and n_iter_refine
\* refine records.
C10_OneRecordPerIteration ==
    /\ pc = "SURVEYING" =>
          /\ Count(integration_history, "survey") = it
          /\ Count(integration_history, "refine") = 0
    /\ pc = "REFINING" =>
          /\ Count(integration_history, "survey") = n_iter_survey
          /\ Count(integration_history, "refine") = it
    /\ pc = "DONE" =>
          /\ Count(Get(result).history, "survey") = n_iter_survey
          /\ Count(Get(result).history, "refine") = n_iter_refine
          /\ Len(Get(result).history) = n_iter_survey + n_iter_refine

\* a run with two survey iterations and one refine iteration has returned
C10_Witness ==
    /\ pc = "DONE"
    /\ n_iter_survey = 2 /\ n_iter_refine = 1
    /\ Len(integration_history) = 3

\* error >= 0 as a comparison of floats: false for NaN
ErrorNonNegative(e) == ~IsNaN(e.rad) /\ e.rad[1] >= 0

\* C11: in every reachable state every record of the history has
\* n_points > 0 and error >= 0, whatever batch size was asked for.
C11_RecordsWellFormed ==
    \A k \in 1..Len(integration_history) :
        /\ integration_history[k].n_points > 0
        /\ ErrorNonNegative(integration_history[k].error)

\* a process_survey_step / process_refine_step call that returns
ProcessStepReturns ==
    /\ pc \in {"SURVEYING", "REFINING"} /\ sample # None
    /\ pc' # "ERROR"
Last(h) == h[Len(h)]

\* C12: during a run the history is append-only and ordered by iteration:
\* each process_*_step adds exactly one record, at the end, made from the
\* arguments of that call, and leaves every earlier record as it was; no other
\* step of the run after initialize() changes the history; so the k-th record
\* is the one of the k-th iteration.
C12_AppendOnly ==
    /\ [][ProcessStepReturns =>
            /\ Len(integration_history') = Len(integration_history) + 1
            /\ SubSeq(integration_history', 1, Len(integration_history))
                  = integration_history
            /\ Last(integration_history').integral = Last(call_log').integral
            /\ Last(integration_history').n_points = Last(call_log').n_points
            /\ Last(integration_history').phase = Last(call_log').phase
            /\ Last(integration_history').error
                  = Sqrt(RDiv(Last(call_log').integral_var,
                              FromInt(Last(call_log').n_points)))]_vars
    /\ [][(~ProcessStepReturns /\ pc # "INIT") => UNCHANGED integration_history]_vars
    /\ [](Running => FromThisRun(integration_history))

\* a refine record has been appended after two different earlier records
C12_Witness ==
    /\ pc = "REFINING"
    /\ Len(integration_history) = 3
    /\ integration_history[1] # integration_history[2]
    /\ IsRefine(integration_history[3])

\* a sample_refine call of the refine loop
SampleRefineCall == pc = "REFINING" /\ sample = None /\ sample' # None
\* smp is (x, px, fx) made from n rows of sample_forward
MadeFromForward(smp, n, ff) ==
    /\ Len(smp.x) = n /\ Len(smp.px) = n /\ Len(smp.fx) = n
    /\ \E xj \in sample_forward(n) :
          \A i \in 1..n :
             /\ smp.x[i] = xj[i].x
             /\ smp.px[i] = ExpNeg(xj[i].lj)
             /\ smp.fx[i] = EvalF(ff, smp.x[i])

\* C13: sample_refine performs no training update: it returns (x, px, fx)
\* made of n_points rows of sample_forward, with px = exp(-last column) and
\* fx = f(x), and leaves the trainer, the posterior and the history as they
\* were; the trainer is the same for all sample_refine calls of a refine
\* phase.
C13_SampleRefineDoesNotTrain ==
    /\ [][SampleRefineCall =>
            /\ UNCHANGED fields
            /\ MadeFromForward(Get(sample'), n_points_refine, f)]_vars
    /\ [][(pc = "REFINING" /\ pc' = "REFINING") =>
            UNCHANGED <<model_trainer, posterior>>]_vars

\* the second sample_refine call of a run whose survey phase trained the
\* trainer
C13_Witness ==
    /\ pc = "REFINING" /\ sample # None /\ it = 1
    /\ model_trainer >= 1
    /\ Len(Get(sample).x) = 2


\* the fields PosteriorSurveySamplingIntegrator.__init__ sets
ParentFields ==
    <<f, model_trainer, posterior, n_iter_survey, n_iter_refine,
      n_points_survey, n_points_refine, use_survey, integration_history>>
\* what PosteriorSurveySamplingIntegrator(**a, posterior=uniform) sets them to
ParentFieldsOf(a) ==
    LET o == IntegratorInit([f |-> a.f, trainer |-> a.trainer,
                             posterior |-> "uniform", n_iter |-> a.n_iter,
                             n_iter_survey |-> a.n_iter_survey,
                             n_iter_refine |-> a.n_iter_refine,
                             n_points |-> a.n_points,
                             n_points_survey |-> a.n_points_survey,
                             n_points_refine |-> a.n_points_refine,
                             use_survey |-> a.use_survey])
    IN  <<o.f, o.model_trainer, o.posterior, o.n_iter_survey, o.n_iter_refine,
          o.n_points_survey, o.n_points_refine, o.use_survey,
          o.integration_history>>
\* every point of the batch has density 1
DensityOne(smp) == \A i \in 1..Len(smp.px) : smp.px[i] = R(1, 1)

\* C14: FlatSurveySamplingIntegrator(f, trainer, d, ...) starts with the
\* fields PosteriorSurveySamplingIntegrator sets for the same arguments and a
\* uniform posterior; every step it takes is a step of the inherited
\* integrate() (sample_refine, the process steps, the history and
\* finalize_integration are the inherited ones); the posterior stays the
\* uniform one, and every survey sample has density 1 at every point, whatever
\* the trainer's state and the iteration.
C14_FlatIsUniformPosteriorIntegrator ==
    /\ (pc = "IDLE" /\ runs = 0 /\ ParentFields = ParentFieldsOf(args))
    /\ [][Next]_vars
    /\ [](posterior = "uniform" /\ d = Some(args.d))
    /\ []((pc = "SURVEYING" /\ sample # None) => DensityOne(Get(sample)))
    /\ [][(pc = "SURVEYING" /\ sample = None /\ sample' # None) =>
            Get(sample') \in generate_target_batch_from_posterior(
                                 n_points_survey, f, "uniform")]_vars
    /\ [](pc = "DONE" => result = Some(finalize_integration(Self, None)))

\* a survey sample drawn by a flat integrator after its trainer was trained
C14_Witness ==
    /\ d # None
    /\ pc = "SURVEYING" /\ sample # None /\ it = 1
    /\ model_trainer >= 1
    /\ Len(Get(sample).px) = 2


\* a finalize_integration call on the literal history returns
FinalizeCall == pc # pc' /\ pc' \in {"RETURNED", "RETURNED_AGAIN"}

\* C15: finalize_integration only reads the history: the call leaves every
\* field, the history included, as it was; its third result is the complete
\* history, survey records included, whatever the flag; the rows it pools are
\* chosen by the explicit use_survey argument whatever the configured flag is,
\* and by the configured flag when the argument is None; and a second call
\* right after the first returns the same (value, error, history).
C15_FinalizeOnlyReads ==
    /\ [][FinalizeCall =>
            /\ UNCHANGED fields
            /\ Get(result').history = integration_history
            /\ SameEstimate(Get(result'),
                            finalize_integration(
                                WithHistory(Selected(integration_history,
                                                     EffectiveUseSurvey')),
                                Some(TRUE)))
            /\ call_use_survey' # None =>
                 /\ EffectiveUseSurvey' = Get(call_use_survey')
                 /\ \A cfg \in BOOLEAN :
                      result' = Some(finalize_integration(
                                         [Self EXCEPT !.use_survey = cfg],
                                         call_use_survey'))
            /\ call_use_survey' = None =>
                 result' = Some(finalize_integration(Self, Some(use_survey)))]_vars
    /\ [][pc' = "RETURNED_AGAIN" => result' = result]_vars

\* finalize_integration(use_survey=False) has been called twice on an
\* integrator configured with use_survey=True whose history holds a survey
\* and a refine record
C15_Witness ==
    /\ pc = "RETURNED_AGAIN"
    /\ call_use_survey = Some(FALSE) /\ use_survey
    /\ Count(integration_history, "survey") = 1
    /\ Count(integration_history, "refine") = 1
    /\ Len(Get(result).history) = 2
    /\ IsFinite(Get(result).value)

=============================================================================
